---- MODULE Spec2Model ----
(***************************************************************************)
(* Model of django-finder (elfinder connector): the node store (models.py),*)
(* the driver commands (drivers/base.py) and the connector (sites.py).     *)
(*                                                                         *)
(* A node is one record (name, parent, kind, owner) addressed by its       *)
(* primary key, which is also its public hash (INodeManager.get_hash).     *)
(* Every command runs to completion inside one connector call; the         *)
(* connector turns any exception into an {error: message} response and     *)
(* nothing rolls back what the command already wrote.                      *)
(***************************************************************************)
EXTENDS Integers, Sequences, FiniteSets, TLC

VARIABLES store, nextId, resp, pending

vars == <<store, nextId, resp, pending>>

(* ---------------- bounds ---------------- *)
MaxId == 3
MaxTargets == 2

(* ---------------- inputs ---------------- *)
RootId == 1
RootName == "home"
NoParent == 0
EmptyHash == 0
Names == {"home", "docs"}
Hashes(cap) == 1..cap
Users == {"admin", "bob", "anon"}
UserInstances == {"admin", "bob"}
Superusers == {"admin"}
CutValues == {"0", "1"}

TargetLists(cap) ==
    UNION {{t \in [1..n -> Hashes(cap)] : \A i, j \in 1..n : i # j => t[i] # t[j]} :
              n \in 1..MaxTargets}
FileLists == UNION {[1..n -> Names] : n \in 1..MaxTargets}

NoErr == "none"

(* ---------------- node store ---------------- *)
Node(name, parent, kind, owner) ==
    [name |-> name, parent |-> parent, kind |-> kind, owner |-> owner,
     size |-> 0]

(* an uploaded file keeps the byte length of its blob; every blob offered *)
(* for upload is one byte long                                            *)
BlobSize(filename) == 1

FileNode(name, parent, owner, bytes) ==
    [Node(name, parent, "file", owner) EXCEPT !.size = bytes]

Exists(st, h) == h \in DOMAIN st

children(st, n) == {m \in DOMAIN st : st[m].parent = n}

RECURSIVE SortedSeq(_)
SortedSeq(S) ==
    IF S = {} THEN <<>>
    ELSE LET m == CHOOSE x \in S : \A y \in S : x <= y
         IN <<m>> \o SortedSeq(S \ {m})

RECURSIVE Closure(_, _)
Closure(st, S) ==
    LET S2 == S \cup {m \in DOMAIN st : st[m].parent \in S}
    IN IF S2 = S THEN S ELSE Closure(st, S2)

Subtree(st, n) == Closure(st, {n})

Descendants(st, n) == Subtree(st, n) \ {n}

Insert(st, id, node) == [m \in DOMAIN st \cup {id} |-> IF m = id THEN node ELSE st[m]]

(* delete without the cascade over the children relation *)
delete_node_only(st, n) == [m \in DOMAIN st \ {n} |-> st[m]]

delete(st, n) == [m \in DOMAIN st \ Subtree(st, n) |-> st[m]]

(* ---------------- permissions ---------------- *)
has_perm(st, n, perm, user) ==
    IF user \in UserInstances THEN user \in Superusers ELSE FALSE

(* ---------------- descriptors ---------------- *)
ParentMissing(st, n) == st[n].parent # NoParent /\ ~Exists(st, st[n].parent)

phash(st, n) == IF st[n].parent # NoParent THEN st[n].parent ELSE EmptyHash

info(st, n, user) ==
    [name   |-> st[n].name,
     hash   |-> n,
     phash  |-> phash(st, n),
     mime   |-> st[n].kind,
     size   |-> st[n].size,
     read   |-> has_perm(st, n, "read", user),
     write  |-> has_perm(st, n, "write", user),
     rm     |-> has_perm(st, n, "remove", user),
     locked |-> IF st[n].parent = NoParent THEN 1 ELSE 0,
     dirs   |-> IF st[n].kind = "folder"
                THEN Cardinality({m \in children(st, n) : st[m].kind = "folder"})
                ELSE 0]

(* ---------------- responses ---------------- *)
(* The connector answers with a dict: {error: message} when the command   *)
(* raised, otherwise the dict the driver command returned.                *)
NoResp == [idle |-> TRUE]

ErrorResponse(message) == [error |-> message]

IsError(r) == "error" \in DOMAIN r

(* Requests being served at the same time by other workers of the server: *)
(* per worker, how far its command got and what it is about to create.    *)
Workers == {"w1", "w2"}

NoNode == Node("", NoParent, "none", "nobody")

(* a worker with no request *)
Waiting == [pc |-> "idle"]

(* a worker serving a request: the command and its user, the node it is  *)
(* about to save, the next free id it saw at its check, its response     *)
Serving ==
    [pc |-> "checked", cmd |-> "none", user |-> "anon", node |-> NoNode,
     seen |-> 0, out |-> NoResp]

Init ==
    /\ store = [n \in {RootId} |-> Node(RootName, NoParent, "folder", "nobody")]
    /\ nextId = RootId + 1
    /\ resp = NoResp
    /\ pending = [w \in Workers |-> Waiting]

(* ---------------- results of a command ---------------- *)
Result(st, next, response) == [st |-> st, next |-> next, resp |-> response]

Raise(st, next, message) == Result(st, next, ErrorResponse(message))

(* ---------------- mkdir ---------------- *)
get_or_create(st, next, name, par_dir, user) ==
    LET found == {m \in children(st, par_dir) :
                     st[m].kind = "folder" /\ st[m].name = name}
    IN  IF Cardinality(found) = 1
        THEN [st |-> st, next |-> next, node |-> CHOOSE m \in found : TRUE,
              error |-> NoErr]
        ELSE IF Cardinality(found) > 1
        THEN [st |-> st, next |-> next, node |-> EmptyHash,
              error |-> "MultipleObjectsReturned"]
        ELSE IF st[par_dir].kind # "folder"
        THEN [st |-> st, next |-> next, node |-> EmptyHash,
              error |-> "FieldError"]
        ELSE [st |-> Insert(st, next, Node(name, par_dir, "folder", user)),
              next |-> next + 1, node |-> next, error |-> NoErr]

(* mkdir with the 'add' check on the parent left out *)
mkdir_unchecked(st, next, name, target, user) ==
    IF ~Exists(st, target) THEN Raise(st, next, "DoesNotExist")
    ELSE LET r == get_or_create(st, next, name, target, user)
         IN  IF r.error # NoErr THEN Raise(r.st, r.next, r.error)
             ELSE Result(r.st, r.next,
                         [added |-> <<info(r.st, r.node, user)>>])

mkdir(st, next, name, target, user) ==
    IF ~Exists(st, target) THEN Raise(st, next, "DoesNotExist")
    ELSE IF ~has_perm(st, target, "add", user)
    THEN Raise(st, next, "PermissionDenied")
    ELSE LET r == get_or_create(st, next, name, target, user)
         IN  IF r.error # NoErr THEN Raise(r.st, r.next, r.error)
             ELSE Result(r.st, r.next,
                         [added |-> <<info(r.st, r.node, user)>>])

(* ---------------- rename ---------------- *)
rename(st, next, name, target, user) ==
    IF ~Exists(st, target) THEN Raise(st, next, "DoesNotExist")
    ELSE IF ~has_perm(st, target, "write", user)
    THEN Raise(st, next, "PermissionDenied")
    ELSE LET st1 == [st EXCEPT ![target].name = name]
         IN  IF ParentMissing(st1, target)
             THEN Raise(st1, next, "DoesNotExist")
             ELSE Result(st1, next,
                         [added |-> <<info(st1, target, user)>>,
                          removed |-> <<target>>])

(* ---------------- rm ---------------- *)
RECURSIVE RemoveLoop(_, _, _, _, _, _)
RemoveLoop(st, next, targets, i, removed, user) ==
    IF i > Len(targets)
    THEN Result(st, next, [removed |-> removed])
    ELSE LET target == targets[i]
         IN  IF ~Exists(st, target)
             THEN Raise(st, next, "DoesNotExist")
             ELSE IF ~has_perm(st, target, "remove", user)
             THEN Raise(st, next, "PermissionDenied")
             ELSE RemoveLoop(delete(st, target), next, targets, i + 1,
                             Append(removed, target), user)

remove(st, next, targets, user) == RemoveLoop(st, next, targets, 1, <<>>, user)

(* ---------------- paste ---------------- *)
_copy_inode(st, next, target, dst_dir) ==
    Insert(st, next, [st[target] EXCEPT !.parent = dst_dir])

RECURSIVE PasteLoop(_, _, _, _, _, _, _, _, _, _)
PasteLoop(st, next, targets, i, dst, cut, user, added, removed, fk) ==
    IF i > Len(targets)
    THEN Result(st, next, [added |-> added, removed |-> removed])
    ELSE LET target == targets[i]
         IN  IF ~Exists(st, target)
             THEN Raise(st, next, "DoesNotExist")
             ELSE IF ~has_perm(st, target, "read", user)
             THEN Raise(st, next, "PermissionDenied")
             ELSE IF \E c \in children(st, dst) : st[c].name = st[target].name
             THEN Raise(st, next, "AlreadyExists")
             ELSE IF ~Exists(st, dst) /\ fk
             THEN Raise(st, next, "IntegrityError")
             ELSE LET st1 == _copy_inode(st, next, target, dst)
                      new_info == info(st1, next, user)
                  IN  IF cut = "1"
                      THEN IF ~has_perm(st1, target, "remove", user)
                           THEN Raise(st1, next + 1, "PermissionDenied")
                           ELSE PasteLoop(delete(st1, target), next + 1,
                                          targets, i + 1, dst, cut, user,
                                          Append(added, new_info),
                                          Append(removed, target), fk)
                      ELSE PasteLoop(st1, next + 1, targets, i + 1, dst, cut,
                                     user, Append(added, new_info), removed, fk)

paste(st, next, targets, src, dst, cut, user, fk) ==
    IF ~Exists(st, src) \/ ~Exists(st, dst)
    THEN Raise(st, next, "DoesNotExist")
    ELSE IF ~has_perm(st, dst, "add", user)
    THEN Raise(st, next, "PermissionDenied")
    ELSE PasteLoop(st, next, targets, 1, dst, cut, user, <<>>, <<>>, fk)

(* ---------------- upload ---------------- *)
RECURSIVE UploadLoop(_, _, _, _, _, _, _)
UploadLoop(st, next, parent, files, i, added, user) ==
    IF i > Len(files)
    THEN Result(st, next, [added |-> added])
    ELSE LET filename == files[i]
         IN  IF \E c \in children(st, parent) : st[c].name = filename
             THEN Raise(st, next, "AlreadyExists")
             ELSE IF st[parent].kind # "folder"
             THEN Raise(st, next, "FieldError")
             ELSE LET st1 == Insert(st, next, FileNode(filename, parent, user,
                                                         BlobSize(filename)))
                  IN  UploadLoop(st1, next + 1, parent, files, i + 1,
                                 Append(added, info(st1, next, user)), user)

upload(st, next, target, files, user) ==
    IF ~Exists(st, target) THEN Raise(st, next, "DoesNotExist")
    ELSE IF ~has_perm(st, target, "add", user)
    THEN Raise(st, next, "PermissionDenied")
    ELSE UploadLoop(st, next, target, files, 1, <<>>, user)

(* ---------------- views ---------------- *)
(* _append_info_if appending the descriptor whatever has_perm answers *)
_append_info_always(st, vector, item, root, user, perm) ==
    Append(vector, IF item = root
                   THEN [info(st, item, user) EXCEPT !.phash = EmptyHash]
                   ELSE info(st, item, user))

_append_info_if(st, vector, item, root, user, perm) ==
    IF has_perm(st, item, perm, user)
    THEN Append(vector, IF item = root
                        THEN [info(st, item, user) EXCEPT !.phash = EmptyHash]
                        ELSE info(st, item, user))
    ELSE vector

RECURSIVE AppendItems(_, _, _, _, _, _, _)
AppendItems(st, vector, items, k, root, user, perm) ==
    IF k > Len(items) THEN vector
    ELSE AppendItems(st, _append_info_if(st, vector, items[k], root, user, perm),
                     items, k + 1, root, user, perm)

(* the call passes (vector, item, user, perm): user lands in the root slot *)
(* and perm in the user slot of _append_info_if                            *)
_extend_info_if(st, vector, items, root, user, perm) ==
    AppendItems(st, vector, items, 1, user, perm, "read")

HashesOf(data) == [k \in 1..Len(data) |-> data[k].hash]

RECURSIVE ChildrenLoop(_, _, _, _, _, _)
ChildrenLoop(st, root, user, curr_node, data, i) ==
    LET data1 == AppendItems(st, data, SortedSeq(children(st, curr_node)), 1,
                             root, user, "read")
    IN  IF i >= Len(data1) THEN data1
        ELSE ChildrenLoop(st, root, user, data1[i + 1].hash, data1, i + 1)

_children_tree(st, root, node, user) ==
    ChildrenLoop(st, root, user, node, <<>>, 0)

Ok(data) == [error |-> NoErr, data |-> data]

Failed(message) == [error |-> message, data |-> <<>>]

RECURSIVE AncestorsLoop(_, _, _, _, _)
AncestorsLoop(st, root, user, curr_node, data) ==
    IF curr_node = NoParent THEN Ok(data)
    ELSE IF ~Exists(st, curr_node) THEN Failed("DoesNotExist")
    ELSE IF has_perm(st, curr_node, "read", user) /\ ParentMissing(st, curr_node)
    THEN Failed("DoesNotExist")
    ELSE LET data1 == _append_info_if(st, data, curr_node, root, user, "read")
         IN  IF curr_node = root THEN Ok(data1)
             ELSE AncestorsLoop(st, root, user, st[curr_node].parent, data1)

_ancestors_tree(st, root, node, siblings, include_self, user) ==
    LET walk == AncestorsLoop(st, root, user,
                              IF include_self THEN node ELSE st[node].parent,
                              <<>>)
    IN  IF walk.error # NoErr THEN walk
        ELSE IF ~siblings THEN walk
        ELSE IF ParentMissing(st, node) THEN Failed("DoesNotExist")
        ELSE IF st[node].parent = NoParent THEN walk
        ELSE Ok(_extend_info_if(st, walk.data,
                                SortedSeq(children(st, st[node].parent)),
                                root, user, "read"))

_tree(st, root, target, user, tree) ==
    IF ~Exists(st, target) \/ ~Exists(st, root) THEN Failed("DoesNotExist")
    ELSE LET data == _children_tree(st, root, target, user)
         IN  IF ~tree THEN Ok(data)
             ELSE LET anc == _ancestors_tree(st, root, target, TRUE, TRUE, user)
                  IN  IF anc.error # NoErr THEN anc
                      ELSE Ok(data \o anc.data)

_get_cwd(st, root, target, user) ==
    IF ~Exists(st, target) \/ ParentMissing(st, target)
    THEN [error |-> "DoesNotExist", data |-> <<>>]
    ELSE [error |-> NoErr,
          data |-> IF target = root
                   THEN [info(st, target, user) EXCEPT !.phash = EmptyHash]
                   ELSE info(st, target, user)]

parents(st, next, root, target, user) ==
    LET t == _tree(st, root, target, user, TRUE)
    IN  IF t.error # NoErr THEN Raise(st, next, t.error)
        ELSE Result(st, next, [parents |-> t.data])

tree(st, next, root, target, user) ==
    LET t == _tree(st, root, target, user, FALSE)
    IN  IF t.error # NoErr THEN Raise(st, next, t.error)
        ELSE Result(st, next, [tree |-> t.data])

open(st, next, root, target, tree_flag, user) ==
    LET tgt == IF target = EmptyHash THEN root ELSE target
        files == _tree(st, root, tgt, user, tree_flag)
        cwd == _get_cwd(st, root, tgt, user)
    IN  IF files.error # NoErr THEN Raise(st, next, files.error)
        ELSE IF cwd.error # NoErr THEN Raise(st, next, cwd.error)
        ELSE Result(st, next, [files |-> files.data, cwd |-> cwd.data])

list(st, next, target, user, root) ==
    LET t == _tree(st, root, target, user, FALSE)
    IN  IF t.error # NoErr THEN Raise(st, next, t.error)
        ELSE Result(st, next,
                    [list |-> [k \in 1..Len(t.data) |-> t.data[k].name]])

(* ---------------- size ---------------- *)
RECURSIVE total_size(_, _)
RECURSIVE SumTotals(_, _)
(* s = 0; for item in get_children(): s += item.total_size *)
SumTotals(st, S) ==
    IF S = {} THEN 0
    ELSE LET m == CHOOSE x \in S : TRUE
         IN  total_size(st, m) + SumTotals(st, S \ {m})

total_size(st, n) ==
    IF st[n].kind = "folder"
    THEN SumTotals(st, children(st, n))
    ELSE st[n].size

RECURSIVE SizeLoop(_, _, _, _, _)
SizeLoop(st, next, targets, i, acc) ==
    IF i > Len(targets) THEN Result(st, next, [size |-> acc])
    ELSE IF ~Exists(st, targets[i]) THEN Raise(st, next, "DoesNotExist")
    ELSE SizeLoop(st, next, targets, i + 1, acc + total_size(st, targets[i]))

size(st, next, targets, user) == SizeLoop(st, next, targets, 1, 0)

(* ---------------- search ---------------- *)
(* q in item['name']: q occurs in the name as a run of consecutive        *)
(* characters, compared case-sensitively                                  *)
Chars(name) ==
    CASE name = "home" -> <<"h", "o", "m", "e">>
      [] name = "docs" -> <<"d", "o", "c", "s">>
      [] OTHER -> <<>>

Queries == {<<"o">>, <<"d", "o">>, <<"m", "e">>, <<"H">>}

Contains(q, name) ==
    LET c == Chars(name)
    IN  \E k \in 0..(Len(c) - Len(q)) :
            \A j \in 1..Len(q) : c[k + j] = q[j]

RECURSIVE SearchLoop(_, _, _, _)
SearchLoop(data, q, i, files) ==
    IF i > Len(data) THEN files
    ELSE SearchLoop(data, q, i + 1,
                    IF Contains(q, data[i].name)
                    THEN Append(files, data[i]) ELSE files)

(* search that returns the whole tree below root, whatever q is *)
search_unfiltered(st, next, q, user, root) ==
    LET t == _tree(st, root, root, user, FALSE)
    IN  IF t.error # NoErr THEN Raise(st, next, t.error)
        ELSE Result(st, next, [files |-> t.data])

search(st, next, q, user, root) ==
    LET t == _tree(st, root, root, user, FALSE)
    IN  IF t.error # NoErr THEN Raise(st, next, t.error)
        ELSE Result(st, next, [files |-> SearchLoop(t.data, q, 1, <<>>)])

(* ---------------- file ---------------- *)
(* The one command whose answer is not a dict: a redirect to the blob of  *)
(* the target.  A folder has no blob, so the attribute lookup raises.     *)
file(st, next, target, user) ==
    IF ~Exists(st, target) THEN Raise(st, next, "DoesNotExist")
    ELSE IF ~has_perm(st, target, "read", user)
         THEN Raise(st, next, "PermissionDenied")
    ELSE IF st[target].kind # "file" THEN Raise(st, next, "AttributeError")
    ELSE Result(st, next, [redirect |-> target])

(* ---------------- run_command ---------------- *)
(* the commands dictionary of the driver *)
commands ==
    {"open", "tree", "list", "mkdir", "rename", "rm", "paste", "parents",
     "upload", "size", "file", "search"}

(* arguments of each driver function that have no default value *)
Mandatory(cmd) ==
    CASE cmd = "open" -> {"root"}
      [] cmd \in {"tree", "parents"} -> {"root", "target"}
      [] cmd \in {"list", "file"} -> {"target"}
      [] cmd \in {"mkdir", "rename"} -> {"name", "target"}
      [] cmd \in {"rm", "size"} -> {"targets"}
      [] cmd = "paste" -> {"targets", "src", "dst", "cut"}
      [] cmd = "upload" -> {"target", "files"}
      [] cmd = "search" -> {"q"}

(* arguments of each driver function that have a default value *)
Defaulted(cmd) ==
    CASE cmd = "open" -> {"target", "tree", "user"}
      [] cmd \in {"list"} -> {"user", "root"}
      [] cmd = "search" -> {"user", "root"}
      [] OTHER -> {"user"}

(* the value of each request field that Python takes for false *)
Falsy(arg) ==
    CASE arg \in {"root", "target", "src", "dst"} -> EmptyHash
      [] arg \in {"targets", "files", "q"} -> <<>>
      [] OTHER -> ""

Given(data, arg) == arg \in DOMAIN data /\ data[arg] # Falsy(arg)

Param(params, arg, default) ==
    IF arg \in DOMAIN params THEN params[arg] ELSE default

(* driver_func called with params: absent ones take the defaults of the  *)
(* signature (None, modelled by the empty hash or the empty string)      *)
driver_func(st, next, cmd, params, fk) ==
    LET user == Param(params, "user", "anon")
    IN  CASE cmd = "open" ->
               open(st, next, params.root, Param(params, "target", EmptyHash),
                    "tree" \in DOMAIN params, user)
          [] cmd = "tree" -> tree(st, next, params.root, params.target, user)
          [] cmd = "parents" ->
               parents(st, next, params.root, params.target, user)
          [] cmd = "list" ->
               list(st, next, params.target, user,
                    Param(params, "root", EmptyHash))
          [] cmd = "mkdir" -> mkdir(st, next, params.name, params.target, user)
          [] cmd = "rename" ->
               rename(st, next, params.name, params.target, user)
          [] cmd = "rm" -> remove(st, next, params.targets, user)
          [] cmd = "paste" ->
               paste(st, next, params.targets, params.src, params.dst,
                     params.cut, user, fk)
          [] cmd = "upload" ->
               upload(st, next, params.target, params.files, user)
          [] cmd = "size" -> size(st, next, params.targets, user)
          [] cmd = "file" -> file(st, next, params.target, user)
          [] cmd = "search" ->
               search(st, next, params.q, user,
                      Param(params, "root", EmptyHash))

(* run_command with the test `arg in data` alone: an empty value counts  *)
(* as given and reaches the driver                                       *)
run_command_lenient(st, next, cmd, data, fk) ==
    LET args == Mandatory(cmd) \cup Defaulted(cmd)
        passed == {arg \in args : arg \in DOMAIN data}
    IN  IF \E arg \in Mandatory(cmd) : arg \notin passed
        THEN Raise(st, next, "mandatory argument missing")
        ELSE driver_func(st, next, cmd, [arg \in passed |-> data[arg]], fk)

run_command(st, next, cmd, data, fk) ==
    LET args == Mandatory(cmd) \cup Defaulted(cmd)
        passed == {arg \in args : Given(data, arg)}
    IN  IF \E arg \in Mandatory(cmd) : arg \notin passed
        THEN Raise(st, next, "mandatory argument missing")
        ELSE driver_func(st, next, cmd, [arg \in passed |-> data[arg]], fk)

(* the connector's handling of one request dict *)
dispatch(st, next, data, fk) ==
    IF "cmd" \notin DOMAIN data THEN Raise(st, next, "no cmd")
    ELSE IF data.cmd \notin commands
         THEN Raise(st, next, "command not available")
    ELSE run_command(st, next, data.cmd, data, fk)

(* Requests as the connector builds them: user, root and files are always *)
(* in the dict, the other fields only when the request carries them.      *)
FullRequest(cmd, root, h, user) ==
    [cmd |-> cmd, user |-> user, root |-> root, files |-> <<"docs">>,
     target |-> h, targets |-> <<h>>, src |-> root, dst |-> h, cut |-> "0",
     name |-> "docs", q |-> <<"o">>, tree |-> "1"]

Drop(data, arg) == [a \in DOMAIN data \ {arg} |-> data[a]]

Blank(data, arg) == [data EXCEPT ![arg] = Falsy(arg)]

allowed_http_params ==
    {"cmd", "target", "targets", "tree", "name", "src", "dst", "cut", "q",
     "root"}

(* fields of the request that the driver function of cmd looks at *)
Relevant(cmd) ==
    IF cmd \in commands
    THEN (Mandatory(cmd) \cup Defaulted(cmd)) \ {"user"} ELSE {}

Requests(cap) ==
    LET whole == {FullRequest(cmd, RootId, h, "admin") :
                    cmd \in commands, h \in Hashes(cap)}
                 \cup {FullRequest(cmd, root, RootId, "admin") :
                    cmd \in commands, root \in Hashes(cap)}
        plain == {FullRequest(cmd, RootId, RootId, "admin") :
                    cmd \in commands \cup {"bogus"}}
    IN  whole
          \cup plain
          \cup {Drop(d, "cmd") : d \in plain}
          \cup UNION {{Drop(d, arg) :
                         arg \in Relevant(d.cmd) \cap (allowed_http_params \ {"root"})}
                      : d \in plain}
          \cup UNION {{Blank(d, arg) : arg \in Relevant(d.cmd)} : d \in plain}

(* ---------------- connector ---------------- *)
(* One connector call: the command runs on the store and its response is  *)
(* returned; Respond is the connector handing the response back.          *)
Answers(r) ==
    /\ store' = r.st
    /\ nextId' = r.next
    /\ resp' = r.resp
    /\ pending' = pending

connector(cap, r) ==
    /\ r.next <= cap + 1
    /\ Answers(r)

CmdMkdir(cap) ==
    /\ resp = NoResp
    /\ \E name \in Names, target \in Hashes(cap), user \in Users :
        connector(cap, mkdir(store, nextId, name, target, user))

CmdRename(cap) ==
    /\ resp = NoResp
    /\ \E name \in Names, target \in Hashes(cap), user \in Users :
        connector(cap, rename(store, nextId, name, target, user))

CmdRm(cap) ==
    /\ resp = NoResp
    /\ \E targets \in TargetLists(cap), user \in Users :
        connector(cap, remove(store, nextId, targets, user))

(* Whether the database enforces the parent foreign key shows only when  *)
(* paste saves a copy under a destination it has already deleted.        *)
ForeignKeys(st, targets, dst, cut) ==
    IF cut = "1" /\ \E k \in 1..Len(targets) :
                       Exists(st, targets[k]) /\ dst \in Subtree(st, targets[k])
    THEN BOOLEAN ELSE {TRUE}

CmdPaste(cap) ==
    /\ resp = NoResp
    /\ \E targets \in TargetLists(cap), src \in {RootId}, dst \in Hashes(cap),
       cut \in CutValues, user \in Users :
      \E fk \in ForeignKeys(store, targets, dst, cut) :
        connector(cap, paste(store, nextId, targets, src, dst, cut, user, fk))

CmdUpload(cap) ==
    /\ resp = NoResp
    /\ \E target \in Hashes(cap), files \in FileLists, user \in Users :
        connector(cap, upload(store, nextId, target, files, user))

CmdOpen(cap) ==
    /\ resp = NoResp
    /\ \E root \in Hashes(cap), target \in Hashes(cap) \cup {EmptyHash},
       tree_flag \in BOOLEAN, user \in Users :
        connector(cap, open(store, nextId, root, target, tree_flag, user))

CmdTree(cap) ==
    /\ resp = NoResp
    /\ \E root \in Hashes(cap), target \in Hashes(cap), user \in Users :
        connector(cap, tree(store, nextId, root, target, user))

CmdParents(cap) ==
    /\ resp = NoResp
    /\ \E root \in Hashes(cap), target \in Hashes(cap), user \in Users :
        connector(cap, parents(store, nextId, root, target, user))

CmdList(cap) ==
    /\ resp = NoResp
    /\ \E root \in Hashes(cap), target \in Hashes(cap), user \in Users :
        connector(cap, list(store, nextId, target, user, root))

CmdSize(cap) ==
    /\ resp = NoResp
    /\ \E targets \in TargetLists(cap), user \in Users :
        connector(cap, size(store, nextId, targets, user))

CmdSearch(cap) ==
    /\ resp = NoResp
    /\ \E q \in Queries, user \in Users, root \in Hashes(cap) :
        connector(cap, search(store, nextId, q, user, root))

CmdRequest(cap) ==
    /\ resp = NoResp
    /\ \E data \in Requests(cap) :
        connector(cap, dispatch(store, nextId, data, TRUE))

Respond ==
    /\ resp # NoResp
    /\ resp' = NoResp
    /\ UNCHANGED <<store, nextId, pending>>

Next ==
    \/ CmdMkdir(MaxId)
    \/ CmdRename(MaxId)
    \/ CmdRm(MaxId)
    \/ CmdPaste(MaxId)
    \/ CmdUpload(MaxId)
    \/ CmdOpen(MaxId)
    \/ CmdTree(MaxId)
    \/ CmdParents(MaxId)
    \/ CmdList(MaxId)
    \/ Respond

Spec == Init /\ [][Next]_vars

NextWide ==
    \/ CmdMkdir(MaxId + 1)
    \/ CmdRename(MaxId + 1)
    \/ CmdRm(MaxId + 1)
    \/ CmdPaste(MaxId + 1)
    \/ CmdUpload(MaxId + 1)
    \/ CmdOpen(MaxId + 1)
    \/ CmdTree(MaxId + 1)
    \/ CmdParents(MaxId + 1)
    \/ CmdList(MaxId + 1)
    \/ Respond

SpecWide == Init /\ [][NextWide]_vars

(* A populated store, reached from Init by mkdir("docs", 1), mkdir("docs", 2) *)
(* and mkdir("home", 1) of the superuser, with room for one more node.        *)
InitTree ==
    /\ store = [n \in 1..4 |->
                   CASE n = 1 -> Node(RootName, NoParent, "folder", "nobody")
                     [] n = 2 -> Node("docs", 1, "folder", "admin")
                     [] n = 3 -> Node("docs", 2, "folder", "admin")
                     [] n = 4 -> Node("home", 1, "folder", "admin")]
    /\ nextId = 5
    /\ resp = NoResp
    /\ pending = [w \in Workers |-> Waiting]

NextTree ==
    \/ CmdMkdir(MaxId + 2)
    \/ CmdRename(MaxId + 2)
    \/ CmdRm(MaxId + 2)
    \/ CmdPaste(MaxId + 2)
    \/ CmdUpload(MaxId + 2)
    \/ CmdOpen(MaxId + 2)
    \/ CmdTree(MaxId + 2)
    \/ CmdParents(MaxId + 2)
    \/ CmdList(MaxId + 2)
    \/ Respond

SpecTree == InitTree /\ [][NextTree]_vars

(* Requests as they reach the connector: request dicts through the        *)
(* dispatcher, and the size and search commands with all their inputs.    *)
NextConnector ==
    \/ CmdRequest(MaxId)
    \/ CmdSize(MaxId)
    \/ CmdSearch(MaxId)
    \/ Respond

SpecConnector == Init /\ [][NextConnector]_vars

(* ---------------- concurrent requests ---------------- *)
(* The server runs several connector calls at once and the driver opens   *)
(* no transaction: a command that creates a node first reads the store    *)
(* (permission, collision check, get) and writes the new node later, and  *)
(* another worker's steps may fall in between.  RaceBegin is the command  *)
(* up to the point before its write, RaceCreate is the write and the      *)
(* response built after it, RaceEnd hands the response back.  One created *)
(* node per command: mkdir, upload of one file, paste cut=0 of one target.*)
Creating(w, cmd, user, r) ==
    IF IsError(r.resp) \/ r.st = store
    THEN pending' = [pending EXCEPT ![w] =
                        [Serving EXCEPT !.pc = "done", !.cmd = cmd,
                                        !.user = user, !.out = r.resp]]
    ELSE pending' = [pending EXCEPT ![w] =
                        [Serving EXCEPT !.pc = "checked", !.cmd = cmd,
                                        !.user = user, !.node = r.st[nextId],
                                        !.seen = nextId]]

RaceBegin(w) ==
    /\ pending[w].pc = "idle"
    /\ \E user \in Users, dst \in Hashes(MaxId) :
          \/ \E name \in Names :
                Creating(w, "mkdir", user, mkdir(store, nextId, name, dst, user))
          \/ \E name \in Names :
                Creating(w, "upload", user,
                         upload(store, nextId, dst, <<name>>, user))
          \/ \E target \in Hashes(MaxId) :
                Creating(w, "paste", user,
                         paste(store, nextId, <<target>>, RootId, dst, "0",
                               user, TRUE))
    /\ UNCHANGED <<store, nextId, resp>>

RaceCreate(w) ==
    /\ pending[w].pc = "checked"
    /\ nextId <= MaxId
    /\ store' = Insert(store, nextId, pending[w].node)
    /\ nextId' = nextId + 1
    /\ pending' = [pending EXCEPT ![w].pc = "done",
                     ![w].out = IF pending[w].cmd = "paste"
                                THEN [added |-> <<info(store', nextId, pending[w].user)>>,
                                      removed |-> <<>>]
                                ELSE [added |-> <<info(store', nextId, pending[w].user)>>]]
    /\ UNCHANGED resp

RaceEnd(w) ==
    /\ pending[w].pc = "done"
    /\ pending' = [pending EXCEPT ![w] = Waiting]
    /\ UNCHANGED <<store, nextId, resp>>

NextRace ==
    \/ \E w \in Workers : RaceBegin(w)
    \/ \E w \in Workers : RaceCreate(w)
    \/ \E w \in Workers : RaceEnd(w)

SpecRace == Init /\ [][NextRace]_vars

(* ======================= properties ======================= *)

(* C1: in every reachable state no two nodes with the same parent have the  *)
(* same name, whatever sequence of mkdir, rename, rm, paste and upload ran. *)
C1_SiblingNamesUnique ==
    \A m, n \in DOMAIN store :
        (m # n /\ store[m].parent = store[n].parent)
            => store[m].name # store[n].name

(* C2: a command whose response is {error: ...} leaves the node store       *)
(* exactly as it was before the command.                                    *)
C2_ErrorLeavesStoreUnchanged ==
    [][IsError(resp') => store' = store]_vars

(* C3: every mutation is gated by the matching permission of the calling    *)
(* user: a node is created by mkdir or upload only with 'add' on its        *)
(* parent, renamed only with 'write' on it, deleted by rm or by paste with  *)
(* cut only with 'remove' on it, and copied by paste only with 'add' on the *)
(* destination and 'read' on the node copied.                               *)
Created(st, r) == DOMAIN r.st \ DOMAIN st

Deleted(st, r) == DOMAIN st \ DOMAIN r.st

Renamed(st, r) ==
    {n \in DOMAIN st \cap DOMAIN r.st : r.st[n].name # st[n].name}

C3_MutationsGated ==
    resp = NoResp =>
      /\ \A name \in Names, target \in Hashes(MaxId), user \in Users :
           LET r == mkdir(store, nextId, name, target, user)
           IN  /\ \A n \in Created(store, r) :
                     has_perm(store, r.st[n].parent, "add", user)
               /\ Deleted(store, r) = {} /\ Renamed(store, r) = {}
      /\ \A target \in Hashes(MaxId), files \in FileLists, user \in Users :
           LET r == upload(store, nextId, target, files, user)
           IN  /\ \A n \in Created(store, r) :
                     has_perm(store, r.st[n].parent, "add", user)
               /\ Deleted(store, r) = {} /\ Renamed(store, r) = {}
      /\ \A name \in Names, target \in Hashes(MaxId), user \in Users :
           LET r == rename(store, nextId, name, target, user)
           IN  /\ \A n \in Renamed(store, r) :
                     has_perm(store, n, "write", user)
               /\ Created(store, r) = {} /\ Deleted(store, r) = {}
      /\ \A targets \in TargetLists(MaxId), user \in Users :
           LET r == remove(store, nextId, targets, user)
           IN  /\ \A n \in Deleted(store, r) :
                     has_perm(store, n, "remove", user)
               /\ Created(store, r) = {} /\ Renamed(store, r) = {}
      /\ \A targets \in TargetLists(MaxId), dst \in Hashes(MaxId),
            cut \in CutValues, user \in Users :
          \A fk \in ForeignKeys(store, targets, dst, cut) :
           LET r == paste(store, nextId, targets, RootId, dst, cut, user, fk)
           IN  /\ \A n \in Deleted(store, r) :
                     cut = "1" /\ has_perm(store, n, "remove", user)
               /\ \A n \in Created(store, r) :
                     /\ has_perm(store, dst, "add", user)
                     /\ \E k \in 1..Len(targets) :
                           /\ Exists(store, targets[k])
                           /\ store[targets[k]].name = r.st[n].name
                           /\ has_perm(store, targets[k], "read", user)
               /\ Renamed(store, r) = {}

(* a folder that mkdir has just created is in the store and in the response *)
C3_Witness ==
    /\ "added" \in DOMAIN resp
    /\ "removed" \notin DOMAIN resp
    /\ Len(resp.added) = 1
    /\ resp.added[1].hash = nextId - 1
    /\ resp.added[1].mime = "folder"
    /\ Exists(store, resp.added[1].hash)

(* C4: paste is all-or-nothing about name collisions: when any target's     *)
(* name is already held by a child of the destination, the command fails    *)
(* and neither the source folder's nor the destination folder's children    *)
(* change, earlier targets of the same call included.                       *)
Collides(st, targets, dst) ==
    \E k \in 1..Len(targets) :
        /\ Exists(st, targets[k])
        /\ \E c \in children(st, dst) : st[c].name = st[targets[k]].name

ChildrenOf(st, d) == [c \in children(st, d) |-> st[c]]

C4_PasteAllOrNothing ==
    [][\A targets \in TargetLists(MaxId + 2), dst \in Hashes(MaxId + 2),
          cut \in CutValues, user \in Users, fk \in BOOLEAN :
          (/\ resp = NoResp
           /\ Collides(store, targets, dst)
           /\ Answers(paste(store, nextId, targets, RootId, dst, cut, user, fk)))
          => /\ IsError(resp')
             /\ ChildrenOf(store', dst) = ChildrenOf(store, dst)
             /\ ChildrenOf(store', RootId) = ChildrenOf(store, RootId)]_vars

(* C5: in every reachable state the parent relation is acyclic: walking     *)
(* parent links upward from any node ends, and ends at the global root,     *)
(* which the walk meets exactly once.                                       *)
RECURSIVE WalkUp(_, _, _)
WalkUp(st, n, path) ==
    IF n = NoParent THEN [path |-> path, end |-> "top"]
    ELSE IF ~Exists(st, n) THEN [path |-> path, end |-> "missing"]
    ELSE IF \E k \in 1..Len(path) : path[k] = n
    THEN [path |-> path, end |-> "cycle"]
    ELSE WalkUp(st, st[n].parent, Append(path, n))

C5_WalkEndsAtRoot ==
    \A n \in DOMAIN store :
        LET w == WalkUp(store, n, <<>>)
        IN  /\ w.end = "top"
            /\ w.path[Len(w.path)] = RootId
            /\ Cardinality({k \in 1..Len(w.path) : w.path[k] = RootId}) = 1

(* C6: the root can never be removed or renamed: in every reachable state   *)
(* exactly one node has no parent, and it is the root with the identifier   *)
(* and the name it was created with.                                        *)
C6_RootPermanent ==
    /\ Exists(store, RootId)
    /\ store[RootId].name = RootName
    /\ \A n \in DOMAIN store : store[n].parent = NoParent <=> n = RootId

(* C7: mkdir with a name a child of the parent already has, and rename to   *)
(* a name a sibling already has, fail with an error and leave the tree      *)
(* unchanged.                                                               *)
NameTaken(st, parent, name, except) ==
    \E c \in children(st, parent) \ except : st[c].name = name

C7_CollidingNameFails ==
    [][\A name \in Names, target \in Hashes(MaxId), user \in Users :
          /\ (/\ resp = NoResp
              /\ Exists(store, target)
              /\ NameTaken(store, target, name, {})
              /\ Answers(mkdir(store, nextId, name, target, user)))
             => (IsError(resp') /\ store' = store)
          /\ (/\ resp = NoResp
              /\ Exists(store, target)
              /\ NameTaken(store, store[target].parent, name, {target})
              /\ Answers(rename(store, nextId, name, target, user)))
             => (IsError(resp') /\ store' = store)]_vars

(* C8: a subtree listing (open without the tree flag, tree, list) of a      *)
(* target holds exactly the descendants of the target the requesting user   *)
(* has 'read' on, each once: a node is left out if and only if the user     *)
(* lacks 'read' on it, and a superuser's listing holds every descendant.    *)
Readable(st, target, user) ==
    {n \in Descendants(st, target) : has_perm(st, n, "read", user)}

Listed(data) == {data[k].hash : k \in 1..Len(data)}

C8_ListingShowsExactlyReadable ==
    resp = NoResp =>
      \A root \in Hashes(MaxId), target \in Hashes(MaxId), user \in Users :
        (Exists(store, root) /\ Exists(store, target)) =>
          LET t == tree(store, nextId, root, target, user).resp
              o == open(store, nextId, root, target, FALSE, user).resp
              l == list(store, nextId, target, user, root).resp
              shown == Readable(store, target, user)
          IN  /\ ~IsError(t)
              /\ Listed(t.tree) = shown
              /\ Len(t.tree) = Cardinality(shown)
              /\ ~IsError(o) =>
                    (Listed(o.files) = shown /\ Len(o.files) = Cardinality(shown))
              /\ ~IsError(l)
              /\ Len(l.list) = Cardinality(shown)
              /\ {l.list[k] : k \in 1..Len(l.list)} = {store[n].name : n \in shown}
              /\ (user \in Superusers) => shown = Descendants(store, target)

(* a tree listing two levels deep: a listed node is the parent of another *)
C8_Witness ==
    /\ "tree" \in DOMAIN resp
    /\ \E i, j \in 1..Len(resp.tree) : resp.tree[j].phash = resp.tree[i].hash

(* C9: paste with cut=0 of a folder makes a deep copy under the destination: *)
(* every descendant of the source has a corresponding new node with a fresh  *)
(* identifier at the same place under the copy, and the source subtree is    *)
(* unchanged.                                                                *)
DeepCopy(st, t, st2, c) ==
    \E f \in [Subtree(st, t) -> DOMAIN st2 \ DOMAIN st] :
        /\ f[t] = c
        /\ \A d, e \in Subtree(st, t) : d # e => f[d] # f[e]
        /\ \A d \in Descendants(st, t) :
              /\ st2[f[d]].name = st[d].name
              /\ st2[f[d]].kind = st[d].kind
              /\ st2[f[d]].parent = f[st[d].parent]

C9_CopyIsDeep ==
    [][\A targets \in TargetLists(MaxId + 2), dst \in Hashes(MaxId + 2),
          user \in Users :
          (/\ resp = NoResp
           /\ Answers(paste(store, nextId, targets, RootId, dst, "0", user, TRUE))
           /\ ~IsError(resp'))
          => \A k \in 1..Len(targets) :
                store[targets[k]].kind = "folder" =>
                  /\ DeepCopy(store, targets[k], store', resp'.added[k].hash)
                  /\ \A d \in Subtree(store, targets[k]) :
                        Exists(store', d) /\ store'[d] = store[d]]_vars

(* C10: paste with cut=1 moves each target in place: after the command the *)
(* target still exists under the same identifier, only its parent changed  *)
(* to the destination, and all its former descendants still exist and are  *)
(* still its descendants.                                                  *)
C10_CutMovesInPlace ==
    [][\A targets \in TargetLists(MaxId + 2), dst \in Hashes(MaxId + 2),
          user \in Users, fk \in BOOLEAN :
          (/\ resp = NoResp
           /\ Answers(paste(store, nextId, targets, RootId, dst, "1", user, fk))
           /\ ~IsError(resp'))
          => \A k \in 1..Len(targets) :
                LET t == targets[k]
                IN  /\ Exists(store', t)
                    /\ store'[t] = [store[t] EXCEPT !.parent = dst]
                    /\ \A d \in Descendants(store, t) :
                          Exists(store', d) /\ d \in Descendants(store', t)]_vars

(* C11: rm is best-effort per target: for a batch of existing targets the  *)
(* response carries a 'removed' list, a target on which the user lacks      *)
(* 'remove' is the only kind of target skipped (every target the user may   *)
(* remove is deleted), and 'removed' holds exactly the targets deleted.     *)
TargetsOf(targets) == {targets[k] : k \in 1..Len(targets)}

C11_RmBestEffort ==
    [][\A targets \in TargetLists(MaxId), user \in Users :
          (/\ resp = NoResp
           /\ \A t \in TargetsOf(targets) : Exists(store, t)
           /\ Answers(remove(store, nextId, targets, user)))
          => /\ "removed" \in DOMAIN resp'
             /\ TargetsOf(resp'.removed)
                  = {t \in TargetsOf(targets) : ~Exists(store', t)}
             /\ \A t \in TargetsOf(targets) :
                   has_perm(store, t, "remove", user) => ~Exists(store', t)]_vars

(* C12: a successful rm removes each target N and every descendant of N     *)
(* and nothing else: every node that is neither a target nor below one      *)
(* keeps its identifier, name and parent.                                   *)
Below(st, n, top) ==
    \E k \in 1..Len(WalkUp(st, n, <<>>).path) :
        WalkUp(st, n, <<>>).path[k] = top

C12_RmRemovesExactlySubtree ==
    resp = NoResp =>
      \A targets \in TargetLists(MaxId), user \in Users :
        LET r == remove(store, nextId, targets, user)
            gone == {n \in DOMAIN store :
                        \E t \in TargetsOf(targets) : Below(store, n, t)}
        IN  ~IsError(r.resp) =>
              /\ DOMAIN r.st = DOMAIN store \ gone
              /\ \A n \in DOMAIN r.st : r.st[n] = store[n]
              /\ TargetsOf(r.resp.removed) = TargetsOf(targets)

(* rm of node 2 has succeeded and took node 3 with it; the root is kept *)
C12_Witness ==
    /\ "removed" \in DOMAIN resp
    /\ "added" \notin DOMAIN resp
    /\ resp.removed = <<2>>
    /\ nextId = 4
    /\ DOMAIN store = {RootId}

(* C13: no descriptor in a command response reveals the parent of the       *)
(* caller's declared root: in the response to a request made under the      *)
(* declared root R, the descriptor of node R carries the empty phash.       *)
Descriptors(r) ==
    UNION {IF key \in DOMAIN r
           THEN {r[key][k] : k \in 1..Len(r[key])}
           ELSE {} : key \in {"added", "files", "tree", "parents"}}
      \cup (IF "cwd" \in DOMAIN r THEN {r.cwd} ELSE {})

RootHidden(r, root) ==
    \A d \in Descriptors(r) : d.hash = root => d.phash = EmptyHash

C13_RootParentHidden ==
    [][\A root \in Hashes(MaxId) :
          (resp = NoResp /\ Exists(store, root)) =>
            /\ \A target \in Hashes(MaxId) \cup {EmptyHash},
                  tree_flag \in BOOLEAN, user \in Users :
                 Answers(open(store, nextId, root, target, tree_flag, user))
                   => RootHidden(resp', root)
            /\ \A target \in Hashes(MaxId), user \in Users :
                 /\ Answers(tree(store, nextId, root, target, user))
                      => RootHidden(resp', root)
                 /\ Answers(parents(store, nextId, root, target, user))
                      => RootHidden(resp', root)
            /\ \A name \in Names, target \in Hashes(MaxId), user \in Users :
                 /\ Answers(mkdir(store, nextId, name, target, user))
                      => RootHidden(resp', root)
                 /\ Answers(rename(store, nextId, name, target, user))
                      => RootHidden(resp', root)
            /\ \A target \in Hashes(MaxId), files \in FileLists, user \in Users :
                 Answers(upload(store, nextId, target, files, user))
                   => RootHidden(resp', root)
            /\ \A targets \in TargetLists(MaxId), dst \in Hashes(MaxId),
                  cut \in CutValues, user \in Users, fk \in BOOLEAN :
                 Answers(paste(store, nextId, targets, RootId, dst, cut, user, fk))
                   => RootHidden(resp', root)]_vars

(* C14: under a declared root R the view commands open, tree and parents    *)
(* return descriptors only of nodes inside R's subtree (R and its           *)
(* descendants), whatever target the caller passes.                         *)
Sandboxed(r, st, root) ==
    \A d \in Descriptors(r) : d.hash \in Subtree(st, root)

C14_ViewsStayInsideRoot ==
    [][\A root \in Hashes(MaxId), user \in Users :
          (resp = NoResp /\ Exists(store, root)) =>
            /\ \A target \in Hashes(MaxId) \cup {EmptyHash}, tree_flag \in BOOLEAN :
                 Answers(open(store, nextId, root, target, tree_flag, user))
                   => Sandboxed(resp', store, root)
            /\ \A target \in Hashes(MaxId) :
                 /\ Answers(tree(store, nextId, root, target, user))
                      => Sandboxed(resp', store, root)
                 /\ Answers(parents(store, nextId, root, target, user))
                      => Sandboxed(resp', store, root)]_vars

(* C15: every descriptor placed in a view response (open, tree, parents) is *)
(* of a node the requesting user has 'read' on: open returns 'cwd' only     *)
(* when the user may read the target, and a user who is not an              *)
(* authenticated account receives no descriptor at all.                     *)
OnlyReadable(r, st, user) ==
    /\ \A d \in Descriptors(r) : has_perm(st, d.hash, "read", user)
    /\ user \notin UserInstances => Descriptors(r) = {}

C15_ViewsShowOnlyReadable ==
    [][\A root \in Hashes(MaxId), user \in Users :
          resp = NoResp =>
            /\ \A target \in Hashes(MaxId) \cup {EmptyHash}, tree_flag \in BOOLEAN :
                 Answers(open(store, nextId, root, target, tree_flag, user))
                   => OnlyReadable(resp', store, user)
            /\ \A target \in Hashes(MaxId) :
                 /\ Answers(tree(store, nextId, root, target, user))
                      => OnlyReadable(resp', store, user)
                 /\ Answers(parents(store, nextId, root, target, user))
                      => OnlyReadable(resp', store, user)]_vars

(* C16: when two commands that create a child of the same name in the same  *)
(* folder run at the same time, the second having made its collision check *)
(* before the first wrote its node, at most one of them succeeds: no two    *)
(* such commands both answer with a created node, leaving the folder with   *)
(* two children of that name.                                               *)
CreatedBy(w) ==
    IF pending[w].pc = "done" /\ "added" \in DOMAIN pending[w].out
       /\ pending[w].seen # 0
    THEN {pending[w].out.added[1]}
    ELSE {}

C16_RaceKeepsNamesUnique ==
    \A w1 \in Workers : \A w2 \in Workers \ {w1} :
        \A d1 \in CreatedBy(w1), d2 \in CreatedBy(w2) :
            (/\ d1.hash < d2.hash
             /\ pending[w2].seen <= d1.hash
             /\ d1.name = d2.name
             /\ d1.phash = d2.phash)
            => ~(/\ Exists(store, d1.hash) /\ Exists(store, d2.hash)
                 /\ store[d1.hash].parent = store[d2.hash].parent
                 /\ store[d1.hash].name = store[d2.hash].name)

(* ---------------- C17 ---------------- *)
Malformed(data) ==
    \/ "cmd" \notin DOMAIN data
    \/ data.cmd \notin commands
    \/ \E arg \in Mandatory(data.cmd) : ~Given(data, arg)

HashArgs == {"root", "target", "src", "dst"}

(* some hash the driver function receives names no node of the store *)
UnknownHash(st, data) ==
    /\ ~Malformed(data)
    /\ LET args == Mandatory(data.cmd) \cup Defaulted(data.cmd)
       IN  \/ \E arg \in args \cap HashArgs :
                Given(data, arg) /\ ~Exists(st, data[arg])
           \/ /\ "targets" \in args
              /\ \E k \in 1..Len(data.targets) : ~Exists(st, data.targets[k])

Refused(r, st, next) ==
    /\ r.resp \in {ErrorResponse("no cmd"),
                   ErrorResponse("command not available"),
                   ErrorResponse("mandatory argument missing")}
    /\ r.st = st
    /\ r.next = next

(* C17: a request with no cmd, with a command that is not registered, with *)
(* a required argument absent or with an unknown hash is answered {error}; *)
(* in the first three cases the connector answers by itself (no driver     *)
(* function runs) and the store is as it was.                              *)
C17_BadRequestsAnswerError ==
    resp = NoResp =>
      \A data \in Requests(MaxId) :
        LET r == dispatch(store, nextId, data, TRUE)
        IN  /\ Malformed(data) => Refused(r, store, nextId)
            /\ UnknownHash(store, data) =>
                 IsError(r.resp) /\ ~Refused(r, store, nextId)

C17_Witness ==
    /\ resp = ErrorResponse("mandatory argument missing")
    /\ DOMAIN store = {1, 2}

(* ---------------- C18 ---------------- *)
(* every node on the way from n up to, and not including, root is readable *)
RECURSIVE ReadableChain(_, _, _, _)
ReadableChain(st, root, n, user) ==
    \/ n = root
    \/ /\ has_perm(st, n, "read", user)
       /\ ReadableChain(st, root, st[n].parent, user)

Matching(st, root, q, user) ==
    {n \in Descendants(st, root) :
        /\ Contains(q, st[n].name)
        /\ ReadableChain(st, root, n, user)}

(* C18: search(q, root) returns exactly the descriptors of the descendants *)
(* of root whose name contains q as a case-sensitive substring and that    *)
(* are reached from root through readable nodes only, each of them once;   *)
(* a matching node below an unreadable ancestor is not returned.           *)
C18_SearchFindsExactlyMatches ==
    resp = NoResp =>
      \A q \in Queries, user \in Users, root \in Hashes(MaxId) :
        Exists(store, root) =>
          LET r == search(store, nextId, q, user, root)
              found == Matching(store, root, q, user)
          IN  /\ ~IsError(r.resp)
              /\ DOMAIN r.resp = {"files"}
              /\ {r.resp.files[k] : k \in 1..Len(r.resp.files)}
                   = {info(store, n, user) : n \in found}
              /\ Len(r.resp.files) = Cardinality(found)
              /\ r.st = store

C18_Witness ==
    /\ DOMAIN resp = {"files"}
    /\ Len(resp.files) = 1
    /\ resp.files[1].hash = 3
    /\ DOMAIN store = {1, 2, 3}
    /\ store[2].parent = RootId
    /\ store[3].parent = 2
    /\ store[2].name = "home"

(* ---------------- C19 ---------------- *)
RECURSIVE SumBytes(_, _)
SumBytes(st, S) ==
    IF S = {} THEN 0
    ELSE LET m == CHOOSE x \in S : TRUE
         IN  st[m].size + SumBytes(st, S \ {m})

(* bytes of the files below a folder at any depth; of the file itself for  *)
(* a file                                                                  *)
FileBytes(st, n) ==
    IF st[n].kind = "folder"
    THEN SumBytes(st, {d \in Descendants(st, n) : st[d].kind # "folder"})
    ELSE st[n].size

RECURSIVE TotalOver(_, _, _)
TotalOver(st, targets, i) ==
    IF i > Len(targets) THEN 0
    ELSE FileBytes(st, targets[i]) + TotalOver(st, targets, i + 1)

(* C19: the total size of a folder is the sum of the sizes of all its file *)
(* descendants at any depth (0 when it has none), and the size command     *)
(* answers the sum of the totals of its targets.                           *)
C19_SizeSumsFileDescendants ==
    resp = NoResp =>
      \A targets \in TargetLists(MaxId), user \in Users :
        (\A k \in 1..Len(targets) : Exists(store, targets[k])) =>
          LET r == size(store, nextId, targets, user)
          IN  /\ r.resp = [size |-> TotalOver(store, targets, 1)]
              /\ r.st = store

(* ---------------- C20 ---------------- *)
(* C20: round trip.  When mkdir(a, root) succeeds and returns the hash h   *)
(* and rename(b, h) then succeeds, the node h is named b, h is not the     *)
(* root's hash, its phash is the root's hash, no child of the root is      *)
(* named a any more, and size([h]) answers 0.                              *)
C20_MkdirRenameRoundTrip ==
    (resp = NoResp /\ Exists(store, RootId)) =>
      \A a \in Names, user \in Users : \A b \in Names \ {a} :
        LET made == mkdir(store, nextId, a, RootId, user)
        IN  ~IsError(made.resp) =>
              LET h == made.resp.added[1].hash
                  renamed == rename(made.st, made.next, b, h, user)
              IN  ~IsError(renamed.resp) =>
                    LET st == renamed.st
                        sized == size(st, renamed.next, <<h>>, user)
                    IN  /\ Exists(st, h)
                        /\ st[h].name = b
                        /\ renamed.resp.added[1].name = b
                        /\ h # RootId
                        /\ renamed.resp.added[1].phash = RootId
                        /\ \A c \in children(st, RootId) : st[c].name # a
                        /\ sized.resp = [size |-> 0]

(* ---------------- C21 ---------------- *)
(* the nodes on the way from target up to root, both included *)
Chain(st, root, target) ==
    {a \in Subtree(st, root) : target \in Subtree(st, a)}

(* the nodes that share their parent with a node of the chain below root *)
LevelSiblings(st, root, target) ==
    {s \in DOMAIN st :
        \E a \in Chain(st, root, target) \ {root} :
            st[s].parent = st[a].parent}

AboveRoot(st, root) == {a \in DOMAIN st : root \in Descendants(st, a)}

AncestorsComplete(data, st, root, target, user) ==
    /\ \A n \in Chain(st, root, target) \cup LevelSiblings(st, root, target) :
          has_perm(st, n, "read", user) => n \in Listed(data)
    /\ Listed(data) \cap AboveRoot(st, root) = {}

(* C21: for a target inside the declared root's subtree, parents (and open *)
(* with tree set) returns every readable ancestor of the target up to and  *)
(* including the declared root, none above it, and the readable siblings   *)
(* at each of those levels.                                                *)
C21_ParentsListAncestorsAndSiblings ==
    resp = NoResp =>
      \A root \in Hashes(MaxId), user \in Users :
        Exists(store, root) =>
          \A target \in Subtree(store, root) :
            LET p == parents(store, nextId, root, target, user)
                o == open(store, nextId, root, target, TRUE, user)
            IN  /\ ~IsError(p.resp) =>
                     AncestorsComplete(p.resp.parents, store, root, target, user)
                /\ ~IsError(o.resp) =>
                     AncestorsComplete(o.resp.files, store, root, target, user)

(* ---------------- C22 ---------------- *)
(* C22: in every reachable state the parent of every non-root node is a    *)
(* folder; a mkdir, upload or paste aimed at a file creates nothing under  *)
(* it.                                                                     *)
C22_ParentsAreFolders ==
    \A n \in DOMAIN store :
        (store[n].parent # NoParent /\ Exists(store, store[n].parent))
            => store[store[n].parent].kind = "folder"

(* ---------------- C23 ---------------- *)
(* 1 when the folder has a folder child the user may read, 0 otherwise *)
DirsFlag(st, n, user) ==
    IF \E c \in children(st, n) :
          st[c].kind = "folder" /\ has_perm(st, c, "read", user)
    THEN 1 ELSE 0

(* C23: the dirs field of a folder's descriptor is 1 when the folder has a *)
(* folder child that the requesting user may read and 0 otherwise; it is   *)
(* never another value and leaves out the folder children the user cannot  *)
(* read.                                                                   *)
C23_DirsIsReadableFlag ==
    resp = NoResp =>
      \A root \in Hashes(MaxId), target \in Hashes(MaxId), user \in Users :
        LET r == open(store, nextId, root, target, FALSE, user)
        IN  ~IsError(r.resp) =>
              \A d \in Descriptors(r.resp) :
                  store[d.hash].kind = "folder" =>
                      d.dirs = DirsFlag(store, d.hash, user)

(* ---------------- C24 ---------------- *)
(* C24: after a paste that answers without error, every descriptor of its  *)
(* added list is of a node that is in the store as a child of the          *)
(* destination, for cut = 0 and cut = 1, also when the destination is the  *)
(* pasted folder itself or lies below it.                                  *)
C24_PastedNodesExist ==
    resp = NoResp =>
      \A targets \in TargetLists(MaxId), dst \in Hashes(MaxId),
         cut \in CutValues, user \in Users :
        \A fk \in ForeignKeys(store, targets, dst, cut) :
          LET r == paste(store, nextId, targets, RootId, dst, cut, user, fk)
          IN  (~IsError(r.resp) /\ r.next <= MaxId + 1) =>
                \A k \in 1..Len(r.resp.added) :
                    /\ Exists(r.st, r.resp.added[k].hash)
                    /\ r.st[r.resp.added[k].hash].parent = dst

====
